---- MODULE Spec2Model ----
(***************************************************************************)
(* A model of the RustyRunways simulation engine (crates/core): the Game   *)
(* struct, its event queue (a std BinaryHeap of ScheduledEvent ordered by  *)
(* time alone), the player actions and advance().                          *)
(*                                                                         *)
(* f32 quantities (cash, fuel, weights, fees, coordinates) are modelled as *)
(* integers; the maps and catalogue entries used keep every product and    *)
(* interpolation exact, so no rounding is abstracted away on them.         *)
(* Plane ids, airport ids and order ids are 0-based as in the code; the    *)
(* sequences that hold them are 1-based, so entry id lives at index id+1.  *)
(***************************************************************************)
EXTENDS Integers, Sequences, FiniteSets, TLC

VARIABLES game, last, processed, departed, steps

vars == <<game, last, processed, departed, steps>>

(***************************************************************************)
(* Bounds and program constants                                            *)
(***************************************************************************)

\* Number of calls (actions and advance) explored from a new game.
MaxSteps == 5

\* game.rs:16  const RESTOCK_CYCLE: u64 = MAX_DEADLINE * 24 ("every 14 days")
RESTOCK_CYCLE == 336

\* game.rs:17
REPORT_INTERVAL == 24

\* config.rs: default starting cash handed to Game::new
StartingCash == 1000000

\* Hours handed to advance().
Hours == {1, 24}

\* Destination ids handed to depart_plane (9 names no airport).
DestIds == {1, 2, 3, 9}

\* Order ids handed to load_order / unload_order (2 names no order before the
\* first Restock).
OrderIds == {0, 1, 2}
PlaneIds == {0, 1}

\* Id lists handed to unload_orders.
OrderIdLists == {<<0, 1>>, <<1, 0>>}

\* Models and airports handed to buy_plane.
BuyModels == {"SparrowLight", "FalconJet", "Concorde"}

BuyAirports == {0, 3}

(***************************************************************************)
(* Coordinates, airplane catalogue                                         *)
(***************************************************************************)

Coordinate(x, y) == [x |-> x, y |-> y]

\* Squared Euclidean distance; distance_to is its square root.
Dist2(a, b) == (a.x - b.x) * (a.x - b.x) + (a.y - b.y) * (a.y - b.y)

\* AirplaneModel, in declaration order (the part of the catalogue used).
Models == <<"SparrowLight", "FalconJet", "CometRegional">>

\* AirplaneModel::specs
specs(model) ==
    CASE model = "SparrowLight" ->
           [mtow |-> 5000, cruise_speed |-> 250, fuel_capacity |-> 200,
            fuel_consumption |-> 30, operating_cost |-> 300,
            payload_capacity |-> 500, purchase_price |-> 200000]
      [] model = "FalconJet" ->
           [mtow |-> 8000, cruise_speed |-> 800, fuel_capacity |-> 2000,
            fuel_consumption |-> 250, operating_cost |-> 1500,
            payload_capacity |-> 1500, purchase_price |-> 1500000]
      [] model = "CometRegional" ->
           [mtow |-> 20000, cruise_speed |-> 700, fuel_capacity |-> 5000,
            fuel_consumption |-> 600, operating_cost |-> 3000,
            payload_capacity |-> 5000, purchase_price |-> 10000000]

\* specs.min_runway_length, in metres rounded up: (0.65 * cruise speed in m/s)^2 / 5,
\* which is the 407.5 m the runway_length test expects of SparrowLight.
min_runway_length(model) ==
    CASE model = "SparrowLight" -> 408
      [] model = "FalconJet" -> 4173
      [] model = "CometRegional" -> 3195

Parked == [tag |-> "Parked", hours_remaining |-> 0, destination |-> 0,
           origin |-> Coordinate(0, 0), total_hours |-> 0]

Busy(tag) == [Parked EXCEPT !.tag = tag]

InTransit(hours, dest, origin, total) ==
    [tag |-> "InTransit", hours_remaining |-> hours, destination |-> dest,
     origin |-> origin, total_hours |-> total]

\* Airplane::new
Airplane_new(id, model, home) ==
    [id |-> id, model |-> model, status |-> Parked, location |-> home,
     current_fuel |-> specs(model).fuel_capacity, current_payload |-> 0,
     manifest |-> <<>>]

(***************************************************************************)
(* The event queue: std::collections::BinaryHeap<ScheduledEvent>           *)
(***************************************************************************)

\* a <= b under impl Ord for ScheduledEvent: cmp(a, b) = b.time.cmp(&a.time).
\* The field seq is the insertion number; the code neither stores nor compares it.
Le(a, b) == a.time >= b.time

RECURSIVE sift_up(_, _, _, _)
sift_up(data, start, pos, elt) ==
    IF pos > start
    THEN LET parent == (pos - 1) \div 2 IN
         IF Le(elt, data[parent + 1])
         THEN [data EXCEPT ![pos + 1] = elt]
         ELSE sift_up([data EXCEPT ![pos + 1] = data[parent + 1]], start, parent, elt)
    ELSE [data EXCEPT ![pos + 1] = elt]

\* BinaryHeap::push
heap_push(data, item) == sift_up(Append(data, item), 0, Len(data), item)

RECURSIVE sift_down_to_bottom(_, _, _, _)
sift_down_to_bottom(data, pos, child, elt) ==
    LET end == Len(data) IN
    IF child + 2 <= end
    THEN LET c == child + (IF Le(data[child + 1], data[child + 2]) THEN 1 ELSE 0) IN
         sift_down_to_bottom([data EXCEPT ![pos + 1] = data[c + 1]], c, 2 * c + 1, elt)
    ELSE IF child = end - 1
         THEN sift_up([data EXCEPT ![pos + 1] = data[child + 1]], 0, child, elt)
         ELSE sift_up(data, 0, pos, elt)

\* BinaryHeap::pop on a non-empty heap: the popped item and the heap left.
heap_pop(data) ==
    LET n == Len(data)
        lastItem == data[n]
        rest == SubSeq(data, 1, n - 1)
    IN IF rest = <<>>
       THEN [item |-> lastItem, data |-> <<>>]
       ELSE [item |-> rest[1],
             data |-> sift_down_to_bottom([rest EXCEPT ![1] = lastItem], 0, 1, lastItem)]

\* The event queued an hour before the time asked for.
schedule_an_hour_early(g, t, event, plane) ==
    [g EXCEPT !.events = heap_push(@, [time |-> t - 1, event |-> event,
                                       plane |-> plane, seq |-> g.nseq]),
              !.nseq = @ + 1]

\* Game::schedule
schedule(g, t, event, plane) ==
    [g EXCEPT !.events = heap_push(@, [time |-> t, event |-> event,
                                       plane |-> plane, seq |-> g.nseq]),
              !.nseq = @ + 1]

(***************************************************************************)
(* Map, airports, orders                                                   *)
(***************************************************************************)

Order(id, weight, value, deadline, origin, dest) ==
    [id |-> id, weight |-> weight, value |-> value, deadline |-> deadline,
     origin_id |-> origin, destination_id |-> dest]

Airport(id, coord, runway, fuel_price, landing_fee, parking_fee, orders) ==
    [id |-> id, coord |-> coord, runway_length |-> runway, fuel_price |-> fuel_price,
     landing_fee |-> landing_fee, parking_fee |-> parking_fee, orders |-> orders]

\* The orders the first restock of Map::generate_from_seed leaves at airport 0:
\* both start there, and together they exceed a SparrowLight's payload.
InitialOrders ==
    <<Order(0, 200, 1000, 1, 0, 1), Order(1, 300, 2000, 5, 0, 2)>>

\* A generated map of four airports. Airport 1 lies on the straight line from
\* airport 0 to airport 2, one third of the way; airport 3 has a runway too
\* short for every model.
GeneratedMap ==
    <<Airport(0, Coordinate(0, 0), 1000, 1, 3, 10, InitialOrders),
      Airport(1, Coordinate(200, 0), 1000, 1, 3, 10, <<>>),
      Airport(2, Coordinate(600, 0), 1000, 2, 4, 20, <<>>),
      Airport(3, Coordinate(0, 300), 300, 1, 3, 5, <<>>)>>

\* Positions of a Vec: 0-based index i is entry i + 1.
Idx(seq) == 1 .. Len(seq)

\* iter().position(|(_, coord)| *coord == location): the first airport at
\* `location`, as an index of `airports`, or 0 when there is none.
AirportAt(airports, location) ==
    IF \E i \in Idx(airports) : airports[i].coord = location
    THEN CHOOSE i \in Idx(airports) :
           /\ airports[i].coord = location
           /\ \A j \in Idx(airports) : airports[j].coord = location => i <= j
    ELSE 0

\* iter().find(|p| p.id == plane_id): index of the first plane with that id, or 0.
PlaneWithId(airplanes, plane_id) ==
    IF \E i \in Idx(airplanes) : airplanes[i].id = plane_id
    THEN CHOOSE i \in Idx(airplanes) :
           /\ airplanes[i].id = plane_id
           /\ \A j \in Idx(airplanes) : airplanes[j].id = plane_id => i <= j
    ELSE 0

\* iter().find(|(a, _)| a.id == destination_id), as an index, or 0.
AirportWithId(airports, id) ==
    IF \E i \in Idx(airports) : airports[i].id = id
    THEN CHOOSE i \in Idx(airports) :
           /\ airports[i].id = id
           /\ \A j \in Idx(airports) : airports[j].id = id => i <= j
    ELSE 0

\* Map::min_distance: the first airport of the closest pair of airports.
min_distance(airports) ==
    LET Pairs == {p \in Idx(airports) \X Idx(airports) : p[1] < p[2]}
        d(p) == Dist2(airports[p[1]].coord, airports[p[2]].coord)
        best == CHOOSE p \in Pairs :
                  \A q \in Pairs :
                     \/ d(p) < d(q)
                     \/ (d(p) = d(q) /\ (p[1] < q[1] \/ (p[1] = q[1] /\ p[2] <= q[2])))
    IN best[1]

RECURSIVE GCD(_, _)
GCD(a, b) == IF b = 0 THEN a ELSE GCD(b, a % b)

\* distance <= fuel / fuel_consumption * cruise_speed (max_range), decided on the
\* squared distance with the ratio cruise_speed : fuel_consumption in lowest terms.
WithinRange(d2, fuel, model) ==
    LET g == GCD(specs(model).cruise_speed, specs(model).fuel_consumption)
        c == specs(model).fuel_consumption \div g
        v == specs(model).cruise_speed \div g
    IN d2 * c * c <= (fuel * v) * (fuel * v)

\* The choice of the starter model with the runway of the airport reached left
\* out of the test.
starter_model_any_runway(airports, start) ==
    LET ok(m) ==
          /\ airports[start].runway_length >= min_runway_length(Models[m])
          /\ \E o \in Idx(airports) :
                /\ airports[o].id # start - 1
                /\ WithinRange(Dist2(airports[o].coord, airports[start].coord),
                               specs(Models[m]).fuel_capacity, Models[m])
        cand == {m \in Idx(Models) : ok(m)}
    IN IF cand = {} THEN "CometRegional"
       ELSE Models[CHOOSE m \in cand :
                     \A n \in cand :
                        \/ specs(Models[m]).purchase_price < specs(Models[n]).purchase_price
                        \/ (specs(Models[m]).purchase_price = specs(Models[n]).purchase_price
                            /\ m <= n)]

\* Player::new: the starter model. Candidates can take off from the start
\* airport and reach and land at some other airport on a full tank; the
\* cheapest wins (min_by keeps the first of equally cheap ones), CometRegional
\* when there is none.
starter_model(airports, start) ==
    LET ok(m) ==
          /\ airports[start].runway_length >= min_runway_length(Models[m])
          /\ \E o \in Idx(airports) :
                /\ airports[o].id # start - 1
                /\ WithinRange(Dist2(airports[o].coord, airports[start].coord),
                               specs(Models[m]).fuel_capacity, Models[m])
                /\ airports[o].runway_length >= min_runway_length(Models[m])
        cand == {m \in Idx(Models) : ok(m)}
    IN IF cand = {} THEN "CometRegional"
       ELSE Models[CHOOSE m \in cand :
                     \A n \in cand :
                        \/ specs(Models[m]).purchase_price < specs(Models[n]).purchase_price
                        \/ (specs(Models[m]).purchase_price = specs(Models[n]).purchase_price
                            /\ m <= n)]

\* Player::new
Player_new(starting_cash, airports) ==
    LET start == min_distance(airports) IN
    [cash |-> starting_cash, fleet_size |-> 1,
     fleet |-> <<Airplane_new(0, starter_model(airports, start), airports[start].coord)>>,
     orders_delivered |-> 0]

\* Game::new
Game_new(airports, starting_cash) ==
    LET player == Player_new(starting_cash, airports)
        g0 == [time |-> 0, airports |-> airports, airplanes |-> player.fleet,
               arrival_times |-> [i \in Idx(player.fleet) |-> 0], player |-> player,
               events |-> <<>>, daily_income |-> 0, daily_expenses |-> 0,
               stats |-> <<>>, next_order_id |-> 2, nseq |-> 1,
               landings |-> [i \in Idx(player.fleet) |-> 0],
               since |-> [i \in Idx(player.fleet) |-> 0], aborted |-> FALSE]
    IN schedule(schedule(g0, RESTOCK_CYCLE, "Restock", 0), REPORT_INTERVAL, "DailyStats", 0)

(***************************************************************************)
(* Airplane                                                                *)
(***************************************************************************)

SetPlane(g, i, plane) == [g EXCEPT !.airplanes[i] = plane]

\* Airplane::can_fly_to: "Ok", "OutOfRange" or "RunwayTooShort".
can_fly_to(plane, airport) ==
    IF ~WithinRange(Dist2(plane.location, airport.coord), plane.current_fuel, plane.model)
    THEN "OutOfRange"
    ELSE IF airport.runway_length < min_runway_length(plane.model)
         THEN "RunwayTooShort"
         ELSE "Ok"

RECURSIVE least_hours(_, _, _)
least_hours(h, d2, speed) ==
    IF (h * speed) * (h * speed) >= d2 THEN h ELSE least_hours(h + 1, d2, speed)

\* ceil(distance / cruise_speed): the least h with (h * cruise_speed)^2 >= d2.
flight_hours(d2, model) == least_hours(0, d2, specs(model).cruise_speed)

\* The departure check without the fuel test: any reachable airport is accepted.
consume_flight_fuel_unchecked(plane, airport) ==
    LET hours == flight_hours(Dist2(plane.location, airport.coord), plane.model)
        need == hours * specs(plane.model).fuel_consumption
    IN IF can_fly_to(plane, airport) # "Ok"
       THEN [res |-> can_fly_to(plane, airport), plane |-> plane, hours |-> 0]
       ELSE [res |-> "Ok", hours |-> hours,
             plane |-> [plane EXCEPT !.current_fuel = @ - need]]

\* The departure that draws the fuel of one hour whatever the flight time.
consume_flight_fuel_of_one_hour(plane, airport) ==
    LET hours == flight_hours(Dist2(plane.location, airport.coord), plane.model)
        need == hours * specs(plane.model).fuel_consumption
    IN IF can_fly_to(plane, airport) # "Ok"
       THEN [res |-> can_fly_to(plane, airport), plane |-> plane, hours |-> 0]
       ELSE IF need > plane.current_fuel
            THEN [res |-> "InsufficientFuel", plane |-> plane, hours |-> 0]
            ELSE [res |-> "Ok", hours |-> hours,
                  plane |-> [plane EXCEPT !.current_fuel =
                                            @ - specs(plane.model).fuel_consumption]]

\* Airplane::consume_flight_fuel: the errors of can_fly_to, InsufficientFuel when
\* flight_hours * fuel_consumption exceeds current_fuel, else the fuel is drawn
\* and the flight hours are returned.
consume_flight_fuel(plane, airport) ==
    LET hours == flight_hours(Dist2(plane.location, airport.coord), plane.model)
        need == hours * specs(plane.model).fuel_consumption
    IN IF can_fly_to(plane, airport) # "Ok"
       THEN [res |-> can_fly_to(plane, airport), plane |-> plane, hours |-> 0]
       ELSE IF need > plane.current_fuel
            THEN [res |-> "InsufficientFuel", plane |-> plane, hours |-> 0]
            ELSE [res |-> "Ok", hours |-> hours,
                  plane |-> [plane EXCEPT !.current_fuel = @ - need]]

\* Airplane::load_order
Airplane_load_order(plane, order) ==
    IF plane.current_payload + order.weight <= specs(plane.model).payload_capacity
    THEN [res |-> "Ok",
          plane |-> [plane EXCEPT !.current_payload = @ + order.weight,
                                  !.manifest = Append(@, order),
                                  !.status = Busy("Loading")]]
    ELSE [res |-> "MaxPayloadReached", plane |-> plane]

\* unload_all that forgets to reset the payload.
Airplane_unload_all_keeps_payload(plane) ==
    [plane EXCEPT !.manifest = <<>>, !.status = Busy("Unloading")]

\* Airplane::unload_all: the plane afterwards (the orders returned are its
\* manifest before).
Airplane_unload_all(plane) ==
    [plane EXCEPT !.manifest = <<>>, !.current_payload = 0,
                  !.status = Busy("Unloading")]

\* Position of the first order with `order_id` in a list, or 0.
OrderPos(orders, order_id) ==
    IF \E i \in Idx(orders) : orders[i].id = order_id
    THEN CHOOSE i \in Idx(orders) :
           /\ orders[i].id = order_id
           /\ \A j \in Idx(orders) : orders[j].id = order_id => i <= j
    ELSE 0

RemoveAt(seq, i) == SubSeq(seq, 1, i - 1) \o SubSeq(seq, i + 1, Len(seq))

\* Airplane::unload_order: removes the order from the manifest, takes its weight
\* off the payload and sets the status to Unloading; OrderIdInvalid otherwise.
Airplane_unload_order(plane, order_id) ==
    LET pos == OrderPos(plane.manifest, order_id) IN
    IF pos = 0
    THEN [res |-> "OrderIdInvalid", plane |-> plane, order |-> Order(0, 0, 0, 0, 0, 0)]
    ELSE [res |-> "Ok", order |-> plane.manifest[pos],
          plane |-> [plane EXCEPT !.manifest = RemoveAt(@, pos),
                                  !.current_payload = @ - plane.manifest[pos].weight,
                                  !.status = Busy("Unloading")]]

\* Airplane::refuel
refuel(plane) ==
    [plane EXCEPT !.current_fuel = specs(plane.model).fuel_capacity,
                  !.status = Busy("Refueling")]

(***************************************************************************)
(* Airport                                                                 *)
(***************************************************************************)

\* Airport::landing_fee
landing_fee(airport, plane) == airport.landing_fee * (specs(plane.model).mtow \div 1000)

\* Airport::fueling_fee
fueling_fee(airport, plane) ==
    airport.fuel_price * (specs(plane.model).fuel_capacity - plane.current_fuel)

\* The loading of a pending order whatever it weighs.
Airport_load_order_overweight(airport, order_id, plane) ==
    LET pos == OrderPos(airport.orders, order_id) IN
    IF pos = 0
    THEN [res |-> "OrderIdInvalid", airport |-> airport, plane |-> plane]
    ELSE [res |-> "Ok",
          plane |-> [plane EXCEPT !.current_payload = @ + airport.orders[pos].weight,
                                  !.manifest = Append(@, airport.orders[pos]),
                                  !.status = Busy("Loading")],
          airport |-> [airport EXCEPT !.orders = RemoveAt(@, pos)]]

\* Airport::load_order: the airport and the plane afterwards.
Airport_load_order(airport, order_id, plane) ==
    LET pos == OrderPos(airport.orders, order_id) IN
    IF pos = 0
    THEN [res |-> "OrderIdInvalid", airport |-> airport, plane |-> plane]
    ELSE IF plane.current_payload + airport.orders[pos].weight
              > specs(plane.model).payload_capacity
         THEN [res |-> "MaxPayloadReached", airport |-> airport, plane |-> plane]
         ELSE LET r == Airplane_load_order(plane, airport.orders[pos]) IN
              [res |-> r.res, plane |-> r.plane,
               airport |-> [airport EXCEPT !.orders = RemoveAt(@, pos)]]

\* The restock with every airport numbering its orders from 0 again.
generate_orders_numbered_from_zero(airport, num_airports, next_order_id) ==
    [airport EXCEPT !.orders =
        [k \in 1 .. 2 |->
            Order(k - 1, 300, 1000, 5, airport.id, (airport.id + 1) % num_airports)]]

\* Airport::generate_orders, for the restock of one airport: the list is cleared
\* and every new order takes the next sequential id. Two orders per restock, to
\* the next airport round (Order::new never keeps destination = origin).
generate_orders(airport, num_airports, next_order_id) ==
    [airport EXCEPT !.orders =
        [k \in 1 .. 2 |->
            Order(next_order_id + k - 1, 300, 1000, 5, airport.id,
                  (airport.id + 1) % num_airports)]]

\* Map::restock_airports
restock_airports(g) ==
    [g EXCEPT !.airports = [i \in Idx(g.airports) |->
                              generate_orders(g.airports[i], Len(g.airports),
                                              g.next_order_id + 2 * (i - 1))],
              !.next_order_id = @ + 2 * Len(g.airports)]

(***************************************************************************)
(* Game: event handling                                                    *)
(***************************************************************************)

\* tick_event, Event::FlightProgress { plane }
flight_progress(g, plane) ==
    LET airplane == g.airplanes[plane + 1]
        st == airplane.status
    IN IF st.tag # "InTransit" THEN g
       ELSE LET dest_coord == g.airports[st.destination + 1].coord
                hours_elapsed == st.total_hours - st.hours_remaining + 1
                \* total_hours = 0 makes the fraction infinite; the value is
                \* overwritten by the landing branch, taken when hours_remaining = 0.
                moved == IF st.total_hours = 0 THEN st.origin
                         ELSE Coordinate(
                                st.origin.x + ((dest_coord.x - st.origin.x) * hours_elapsed)
                                                \div st.total_hours,
                                st.origin.y + ((dest_coord.y - st.origin.y) * hours_elapsed)
                                                \div st.total_hours)
            IN IF st.hours_remaining > 1
               THEN schedule(
                      SetPlane(g, plane + 1,
                               [airplane EXCEPT !.location = moved,
                                                !.status = InTransit(st.hours_remaining - 1,
                                                                     st.destination, st.origin,
                                                                     st.total_hours)]),
                      g.time + 1, "FlightProgress", plane)
               ELSE LET fee == landing_fee(g.airports[st.destination + 1], airplane) IN
                    [g EXCEPT !.player.cash = @ - fee,
                              !.daily_expenses = @ + fee,
                              !.arrival_times[plane + 1] = g.time,
                              !.landings[plane + 1] = @ + 1,
                              !.since[plane + 1] = g.time,
                              !.airplanes[plane + 1] =
                                  [airplane EXCEPT !.location = dest_coord,
                                                   !.status = Parked]]

\* The daily report that does not queue the next one.
daily_stats_once(g) ==
    [g EXCEPT !.stats = Append(@, [day |-> g.time \div 24,
                                   income |-> g.daily_income,
                                   expenses |-> g.daily_expenses,
                                   net_cash |-> g.player.cash,
                                   fleet_size |-> g.player.fleet_size,
                                   total_deliveries |-> g.player.orders_delivered]),
              !.daily_expenses = 0]

\* The daily report with a fixed cost of 100 taken off the cash.
daily_stats_with_fixed_costs(g) ==
    schedule([g EXCEPT !.stats = Append(@, [day |-> g.time \div 24,
                                            income |-> g.daily_income,
                                            expenses |-> g.daily_expenses,
                                            net_cash |-> g.player.cash,
                                            fleet_size |-> g.player.fleet_size,
                                            total_deliveries |-> g.player.orders_delivered]),
                       !.player.cash = @ - 100,
                       !.daily_expenses = 0],
             g.time + REPORT_INTERVAL, "DailyStats", 0)

\* tick_event, Event::DailyStats
daily_stats(g) ==
    schedule([g EXCEPT !.stats = Append(@, [day |-> g.time \div 24,
                                            income |-> g.daily_income,
                                            expenses |-> g.daily_expenses,
                                            net_cash |-> g.player.cash,
                                            fleet_size |-> g.player.fleet_size,
                                            total_deliveries |-> g.player.orders_delivered]),
                       !.daily_expenses = 0],
             g.time + REPORT_INTERVAL, "DailyStats", 0)

\* The events that carry a plane index.
PlaneEvents == {"LoadingEvent", "FlightProgress", "RefuelComplete"}

\* Game::tick_event on a non-empty queue. `self.airplanes[plane]` with an index
\* past the end of the vector panics: the call is aborted with the event
\* popped and the clock moved.
tick_event(g) ==
    LET popped == heap_pop(g.events)
        ev == popped.item
        g1 == [g EXCEPT !.time = ev.time, !.events = popped.data]
    IN CASE ev.event \in PlaneEvents /\ ev.plane + 1 > Len(g.airplanes) ->
              [g1 EXCEPT !.aborted = TRUE]
         [] ev.event = "Restock" ->
              schedule(restock_airports(g1), g1.time + RESTOCK_CYCLE, "Restock", 0)
         [] ev.event = "LoadingEvent" ->
              [g1 EXCEPT !.airplanes[ev.plane + 1].status = Parked]
         [] ev.event = "FlightProgress" -> flight_progress(g1, ev.plane)
         [] ev.event = "RefuelComplete" ->
              [g1 EXCEPT !.airplanes[ev.plane + 1].status = Parked]
         [] ev.event = "DailyStats" -> daily_stats(g1)

\* The loop test with the boundary left out.
DueStrictlyBefore(ev, target) == ev.time < target

\* advance: `if ev.time <= target`
Due(ev, target) == ev.time <= target

RECURSIVE advance_loop(_, _, _)
advance_loop(g, target, log) ==
    IF ~g.aborted /\ g.events # <<>> /\ Due(g.events[1], target)
    THEN advance_loop(tick_event(g), target, Append(log, g.events[1]))
    ELSE [g |-> g, log |-> log]

\* The advance that leaves the clock at the last event it handled.
advance_to_last_event(g, hours) ==
    LET r == advance_loop(g, g.time + hours, <<>>) IN [g |-> r.g, log |-> r.log]

\* Game::advance: the game afterwards and the events it processed, in order.
advance(g, hours) ==
    LET target == g.time + hours
        r == advance_loop(g, target, <<>>)
    IN [g |-> IF r.g.aborted THEN r.g ELSE [r.g EXCEPT !.time = target], log |-> r.log]

(***************************************************************************)
(* Game: actions. Each returns the game afterwards and "Ok" or the error.  *)
(***************************************************************************)

\* The purchase with the test of the funds left out.
Player_buy_plane_on_credit(player, model, airport) ==
    IF ~\E m \in Idx(Models) : Models[m] = model
    THEN [res |-> "UnknownModel", player |-> player, have |-> 0, need |-> 0]
    ELSE IF min_runway_length(model) > airport.runway_length
    THEN [res |-> "RunwayTooShort", player |-> player, have |-> 0, need |-> 0]
    ELSE [res |-> "Ok", have |-> 0, need |-> 0,
          player |-> [player EXCEPT
                        !.cash = @ - specs(model).purchase_price,
                        !.fleet = Append(@, Airplane_new(player.fleet_size, model,
                                                         airport.coord)),
                        !.fleet_size = @ + 1]]

\* Player::buy_plane. `have` and `need` are the fields of InsufficientFunds
\* (0 in every other result).
Player_buy_plane(player, model, airport) ==
    IF ~\E m \in Idx(Models) : Models[m] = model
    THEN [res |-> "UnknownModel", player |-> player, have |-> 0, need |-> 0]
    ELSE IF player.cash < specs(model).purchase_price
    THEN [res |-> "InsufficientFunds", player |-> player,
          have |-> player.cash, need |-> specs(model).purchase_price]
    ELSE IF min_runway_length(model) > airport.runway_length
    THEN [res |-> "RunwayTooShort", player |-> player, have |-> 0, need |-> 0]
    ELSE [res |-> "Ok", have |-> 0, need |-> 0,
          player |-> [player EXCEPT
                        !.cash = @ - specs(model).purchase_price,
                        !.fleet = Append(@, Airplane_new(player.fleet_size, model,
                                                         airport.coord)),
                        !.fleet_size = @ + 1]]

\* Game::buy_plane
buy_plane(g, model, airport_id) ==
    LET r == Player_buy_plane(g.player, model, g.airports[airport_id + 1]) IN
    IF r.res # "Ok" THEN [g |-> g, res |-> r.res, have |-> r.have, need |-> r.need]
    ELSE IF g.airplanes = <<>>
    \* `self.airplanes.last().unwrap()` on an empty vector panics, after the
    \* player was charged.
    THEN [res |-> "Panic", have |-> 0, need |-> 0,
          g |-> [g EXCEPT !.player = r.player, !.aborted = TRUE]]
    ELSE LET new_plane == g.airplanes[Len(g.airplanes)]
             buying_price == specs(new_plane.model).purchase_price
         IN [res |-> "Ok", have |-> 0, need |-> 0,
             g |-> [g EXCEPT !.player = r.player,
                             !.daily_expenses = @ + buying_price,
                             !.airplanes = r.player.fleet,
                             !.arrival_times = Append(@, g.time),
                             !.landings = Append(@, 0),
                             !.since = Append(@, g.time)]]

\* Game::load_order
load_order(g, order_id, plane_id) ==
    LET i == PlaneWithId(g.airplanes, plane_id) IN
    IF i = 0 THEN [g |-> g, res |-> "PlaneIdInvalid"]
    ELSE LET a == AirportAt(g.airports, g.airplanes[i].location) IN
         IF a = 0 THEN [g |-> g, res |-> "PlaneNotAtAirport"]
         ELSE LET r == Airport_load_order(g.airports[a], order_id, g.airplanes[i]) IN
              IF r.res # "Ok" THEN [g |-> g, res |-> r.res]
              ELSE [res |-> "Ok",
                    g |-> schedule([g EXCEPT !.airports[a] = r.airport,
                                             !.airplanes[i] = r.plane],
                                   g.time + 1, "LoadingEvent", plane_id)]

\* The unloading rule that pays for an order wherever it is unloaded.
deliver_paid_anywhere(g, a, delivery) ==
    IF delivery.deadline # 0
    THEN [g EXCEPT !.player.cash = @ + delivery.value,
                   !.daily_income = @ + delivery.value,
                   !.player.orders_delivered = @ + 1]
    ELSE g

\* The unloading rule of unload_all, unload_orders and unload_order for one
\* order taken off a plane at airport index a.
deliver(g, a, delivery) ==
    IF delivery.destination_id = g.airports[a].id
    THEN IF delivery.deadline # 0
         THEN [g EXCEPT !.player.cash = @ + delivery.value,
                        !.daily_income = @ + delivery.value,
                        !.player.orders_delivered = @ + 1]
         ELSE g
    ELSE [g EXCEPT !.airports[a].orders = Append(@, delivery)]

RECURSIVE deliver_all(_, _, _)
deliver_all(g, a, deliveries) ==
    IF deliveries = <<>> THEN g
    ELSE deliver_all(deliver(g, a, Head(deliveries)), a, Tail(deliveries))

\* Game::unload_all
unload_all(g, plane_id) ==
    LET i == PlaneWithId(g.airplanes, plane_id) IN
    IF i = 0 THEN [g |-> g, res |-> "PlaneIdInvalid"]
    ELSE LET a == AirportAt(g.airports, g.airplanes[i].location) IN
         IF a = 0 THEN [g |-> g, res |-> "PlaneNotAtAirport"]
         ELSE [res |-> "Ok",
               g |-> schedule(
                       deliver_all(SetPlane(g, i, Airplane_unload_all(g.airplanes[i])),
                                   a, g.airplanes[i].manifest),
                       g.time + 1, "LoadingEvent", plane_id)]

\* The loop of Game::unload_orders: an id the manifest lacks returns the error
\* at once, with the orders before it already unloaded.
RECURSIVE unload_each(_, _, _, _, _)
unload_each(g, i, a, ids, plane_id) ==
    IF ids = <<>>
    THEN [res |-> "Ok", g |-> schedule(g, g.time + 1, "LoadingEvent", plane_id)]
    ELSE LET r == Airplane_unload_order(g.airplanes[i], Head(ids)) IN
         IF r.res # "Ok" THEN [g |-> g, res |-> r.res]
         ELSE unload_each(deliver(SetPlane(g, i, r.plane), a, r.order),
                          i, a, Tail(ids), plane_id)

\* Game::unload_orders
unload_orders(g, ids, plane_id) ==
    LET i == PlaneWithId(g.airplanes, plane_id) IN
    IF i = 0 THEN [g |-> g, res |-> "PlaneIdInvalid"]
    ELSE LET a == AirportAt(g.airports, g.airplanes[i].location) IN
         IF a = 0 THEN [g |-> g, res |-> "PlaneNotAtAirport"]
         ELSE unload_each(g, i, a, ids, plane_id)

\* Game::unload_order
unload_order(g, order_id, plane_id) ==
    LET i == PlaneWithId(g.airplanes, plane_id) IN
    IF i = 0 THEN [g |-> g, res |-> "PlaneIdInvalid"]
    ELSE LET a == AirportAt(g.airports, g.airplanes[i].location) IN
         IF a = 0 THEN [g |-> g, res |-> "PlaneNotAtAirport"]
         ELSE LET r == Airplane_unload_order(g.airplanes[i], order_id) IN
              IF r.res # "Ok" THEN [g |-> g, res |-> r.res]
              ELSE [res |-> "Ok",
                    g |-> schedule(deliver(SetPlane(g, i, r.plane), a, r.order),
                                   g.time + 1, "LoadingEvent", plane_id)]

\* Game::depart_plane; hours is the flight time of a successful departure.
depart_plane(g, plane_id, destination_id) ==
    LET i == PlaneWithId(g.airplanes, plane_id) IN
    IF i = 0 THEN [g |-> g, res |-> "PlaneIdInvalid", hours |-> 0]
    ELSE LET o == AirportAt(g.airports, g.airplanes[i].location) IN
    IF o = 0 THEN [g |-> g, res |-> "PlaneNotAtAirport", hours |-> 0]
    ELSE LET d == AirportWithId(g.airports, destination_id) IN
    IF d = 0 THEN [g |-> g, res |-> "AirportIdInvalid", hours |-> 0]
    ELSE LET origin_idx == g.airports[o].id
             parked_hours == g.time - g.arrival_times[plane_id + 1]
             parking_fee == g.airports[origin_idx + 1].parking_fee * parked_hours
             charged == [g EXCEPT !.player.cash = @ - parking_fee,
                                  !.daily_expenses = @ + parking_fee]
             r == consume_flight_fuel(g.airplanes[i], g.airports[d])
         IN IF r.res # "Ok" THEN [g |-> charged, res |-> r.res, hours |-> 0]
            ELSE [res |-> "Ok", hours |-> r.hours,
                  g |-> schedule(
                          SetPlane(charged, i,
                                   [r.plane EXCEPT !.status =
                                       InTransit(r.hours, destination_id,
                                                 r.plane.location, r.hours)]),
                          g.time + 1, "FlightProgress", plane_id)]

\* Game::refuel_plane
refuel_plane(g, plane_id) ==
    LET i == PlaneWithId(g.airplanes, plane_id) IN
    IF i = 0 THEN [g |-> g, res |-> "PlaneIdInvalid"]
    ELSE LET a == AirportAt(g.airports, g.airplanes[i].location) IN
         IF a = 0 THEN [g |-> g, res |-> "PlaneNotAtAirport"]
         ELSE LET fee == fueling_fee(g.airports[a], g.airplanes[i]) IN
              [res |-> "Ok",
               g |-> schedule([g EXCEPT !.airplanes[i] = refuel(g.airplanes[i]),
                                        !.player.cash = @ - fee,
                                        !.daily_expenses = @ + fee],
                              g.time + 1, "RefuelComplete", plane_id)]

\* The sale with the whole purchase price refunded.
Player_sell_plane_at_full_price(player, plane_id) ==
    LET idx == PlaneWithId(player.fleet, plane_id) IN
    IF idx = 0 THEN [res |-> "PlaneIdInvalid", player |-> player]
    ELSE [res |-> "Ok",
          player |-> [player EXCEPT
                        !.fleet = RemoveAt(@, idx),
                        !.cash = @ + specs(player.fleet[idx].model).purchase_price,
                        !.fleet_size = Len(player.fleet) - 1]]

\* Player::sell_plane: the plane leaves the fleet and 60 % of its purchase
\* price is refunded.
Player_sell_plane(player, plane_id) ==
    LET idx == PlaneWithId(player.fleet, plane_id) IN
    IF idx = 0 THEN [res |-> "PlaneIdInvalid", player |-> player]
    ELSE [res |-> "Ok",
          player |-> [player EXCEPT
                        !.fleet = RemoveAt(@, idx),
                        !.cash = @ + (specs(player.fleet[idx].model).purchase_price * 6)
                                       \div 10,
                        !.fleet_size = Len(player.fleet) - 1]]

\* Game::sell_plane ("refund 0.6 * purchase_price, remove from fleet"): the
\* player sells, and the plane leaves the game's vector of planes as well.
sell_plane(g, plane_id) ==
    LET r == Player_sell_plane(g.player, plane_id)
        i == PlaneWithId(g.airplanes, plane_id)
    IN IF r.res # "Ok" \/ i = 0 THEN [g |-> g, res |-> "PlaneIdInvalid"]
       ELSE [res |-> "Ok",
             g |-> [g EXCEPT !.player = r.player,
                             !.airplanes = RemoveAt(@, i),
                             !.landings = RemoveAt(@, i),
                             !.since = RemoveAt(@, i)]]

RECURSIVE heap_from_rev(_, _)
\* The sequence pushed onto an empty heap from its last entry to its first.
heap_from_rev(items, n) ==
    IF n = Len(items) THEN <<>>
    ELSE heap_push(heap_from_rev(items, n + 1), items[n + 1])

\* A reader that pushes the saved sequence in reverse.
heap_from_seq_reversed(items) == heap_from_rev(items, 0)

RECURSIVE heap_from(_, _)
heap_from(items, n) ==
    IF n = 0 THEN <<>> ELSE heap_push(heap_from(items, n - 1), items[n])

\* Deserialize for BinaryHeap (serde): an empty heap onto which the entries of
\* the saved sequence are pushed one by one, in the order of the sequence.
heap_from_seq(items) == heap_from(items, Len(items))

\* Game::save_game: the JSON document, one member per field of Game. The heap
\* is written as the sequence of its entries in the order of its vector.
save_game(g) ==
    [time |-> g.time,
     map |-> [airports |-> g.airports, next_order_id |-> g.next_order_id],
     airplanes |-> g.airplanes, arrival_times |-> g.arrival_times,
     player |-> g.player, events |-> g.events,
     daily_income |-> g.daily_income, daily_expenses |-> g.daily_expenses,
     stats |-> g.stats]

\* Game::load_game of a document; the bookkeeping of the model (nseq, landings,
\* since, aborted) is handed over from the game that was saved.
load_game(doc, g) ==
    [g EXCEPT !.time = doc.time,
              !.airports = doc.map.airports,
              !.next_order_id = doc.map.next_order_id,
              !.airplanes = doc.airplanes,
              !.arrival_times = doc.arrival_times,
              !.player = doc.player,
              !.events = heap_from_seq(doc.events),
              !.daily_income = doc.daily_income,
              !.daily_expenses = doc.daily_expenses,
              !.stats = doc.stats]

\* Airport::update_deadline: expired orders leave, the others lose an hour.
update_deadline(airport) ==
    LET kept == SelectSeq(airport.orders, LAMBDA o : o.deadline # 0) IN
    [airport EXCEPT !.orders = [k \in Idx(kept) |-> [kept[k] EXCEPT !.deadline = @ - 1]]]

(***************************************************************************)
(* The state machine                                                       *)
(***************************************************************************)

NoFlight == [t |-> 0, h |-> 0, dest |-> 0, landed |-> 0, active |-> FALSE]

Call(op, plane, arg, res) == [op |-> op, plane |-> plane, arg |-> arg, res |-> res]

\* Calls are accepted while the engine has not panicked.
Running == steps < MaxSteps /\ ~game.aborted

Init ==
    /\ game = Game_new(GeneratedMap, StartingCash)
    /\ last = Call("new", 0, 0, "Ok")
    /\ processed = <<>>
    /\ departed = <<NoFlight>>
    /\ steps = 0

Advance ==
    /\ Running
    /\ \E hours \in Hours :
         LET r == advance(game, hours) IN
         /\ game' = r.g
         /\ processed' = r.log
         /\ last' = Call(IF r.g.aborted THEN "advance_aborted" ELSE "advance",
                         0, hours, "Ok")
    /\ steps' = steps + 1
    /\ UNCHANGED departed

BuyPlane ==
    /\ Running
    /\ \E model \in BuyModels, airport_id \in BuyAirports :
         LET r == buy_plane(game, model, airport_id) IN
         /\ game' = r.g
         /\ last' = [op |-> "buy_plane", plane |-> 0, arg |-> airport_id, res |-> r.res,
                      model |-> model, have |-> r.have, need |-> r.need]
         /\ departed' = IF r.res = "Ok" THEN Append(departed, NoFlight) ELSE departed
    /\ processed' = <<>>
    /\ steps' = steps + 1

LoadOrder ==
    /\ Running
    /\ \E order_id \in OrderIds, plane_id \in PlaneIds :
         LET r == load_order(game, order_id, plane_id) IN
         /\ game' = r.g
         /\ last' = Call("load_order", plane_id, order_id, r.res)
    /\ processed' = <<>>
    /\ steps' = steps + 1
    /\ UNCHANGED departed

UnloadAll ==
    /\ Running
    /\ \E plane_id \in PlaneIds :
         LET r == unload_all(game, plane_id) IN
         /\ game' = r.g
         /\ last' = Call("unload_all", plane_id, 0, r.res)
    /\ processed' = <<>>
    /\ steps' = steps + 1
    /\ UNCHANGED departed

UnloadOrders ==
    /\ Running
    /\ \E ids \in OrderIdLists, plane_id \in PlaneIds :
         LET r == unload_orders(game, ids, plane_id) IN
         /\ game' = r.g
         /\ last' = Call("unload_orders", plane_id, Len(ids), r.res)
    /\ processed' = <<>>
    /\ steps' = steps + 1
    /\ UNCHANGED departed

UnloadOrder ==
    /\ Running
    /\ \E order_id \in OrderIds, plane_id \in PlaneIds :
         LET r == unload_order(game, order_id, plane_id) IN
         /\ game' = r.g
         /\ last' = Call("unload_order", plane_id, order_id, r.res)
    /\ processed' = <<>>
    /\ steps' = steps + 1
    /\ UNCHANGED departed

DepartPlane ==
    /\ Running
    /\ \E plane_id \in PlaneIds, destination_id \in DestIds :
         LET r == depart_plane(game, plane_id, destination_id)
             i == PlaneWithId(game.airplanes, plane_id)
         IN
         /\ game' = r.g
         /\ last' = Call("depart_plane", plane_id, destination_id, r.res)
         /\ departed' = IF r.res = "Ok"
                        THEN [departed EXCEPT ![i] =
                                [t |-> game.time, h |-> r.hours, dest |-> destination_id,
                                 landed |-> game.landings[i], active |-> TRUE]]
                        ELSE departed
    /\ processed' = <<>>
    /\ steps' = steps + 1

RefuelPlane ==
    /\ Running
    /\ \E plane_id \in PlaneIds :
         LET r == refuel_plane(game, plane_id) IN
         /\ game' = r.g
         /\ last' = Call("refuel_plane", plane_id, 0, r.res)
    /\ processed' = <<>>
    /\ steps' = steps + 1
    /\ UNCHANGED departed

UpdateDeadline ==
    /\ Running
    /\ \E a \in Idx(game.airports) :
         /\ game' = [game EXCEPT !.airports[a] = update_deadline(@)]
         /\ last' = Call("update_deadline", 0, a - 1, "Ok")
    /\ processed' = <<>>
    /\ steps' = steps + 1
    /\ UNCHANGED departed

Next ==
    \/ Advance
    \/ BuyPlane
    \/ LoadOrder
    \/ UnloadAll
    \/ UnloadOrders
    \/ UnloadOrder
    \/ DepartPlane
    \/ RefuelPlane
    \/ UpdateDeadline

Spec == Init /\ [][Next]_vars

(***************************************************************************)
(* A game in progress, with a fleet of two, and the sale of planes         *)
(***************************************************************************)

\* Starting cash of the game in progress: enough for a second and a third plane.
FleetCash == 2000000

\* The generated map with a runway at airport 0 long enough for a FalconJet.
FleetMap == [GeneratedMap EXCEPT ![1].runway_length = 5000]

\* Hours of the last advance of the game in progress: it ends one hour before
\* the first Restock and the fourteenth DailyStats.
FleetHours == 334

\* The calls that lead from a new game to the game in progress: a second
\* SparrowLight is bought, plane 0 loads order 0 and flies it to airport 1.
FleetGame ==
    LET g1 == buy_plane(Game_new(FleetMap, FleetCash), "SparrowLight", 0).g
        g2 == load_order(g1, 0, 0).g
        g3 == advance(g2, 1).g
        d4 == depart_plane(g3, 0, 1)
        g5 == advance(d4.g, FleetHours).g
    IN g5

InitFleet ==
    /\ game = FleetGame
    /\ last = Call("advance", 0, FleetHours, "Ok")
    /\ processed = <<>>
    /\ departed = <<NoFlight, NoFlight>>
    /\ steps = 2

SellPlane ==
    /\ Running
    /\ \E plane_id \in PlaneIds :
         LET r == sell_plane(game, plane_id)
             i == PlaneWithId(game.airplanes, plane_id)
         IN
         /\ game' = r.g
         /\ last' = Call("sell_plane", plane_id, 0, r.res)
         /\ departed' = IF r.res = "Ok" THEN RemoveAt(departed, i) ELSE departed
    /\ processed' = <<>>
    /\ steps' = steps + 1

\* save_game followed by load_game of the file written.
SaveLoad ==
    /\ Running
    /\ game' = load_game(save_game(game), game)
    /\ last' = Call("load_game", 0, 0, "Ok")
    /\ processed' = <<>>
    /\ steps' = steps + 1
    /\ UNCHANGED departed

NextFleet ==
    \/ Next
    \/ SellPlane
    \/ SaveLoad

SpecFleet == InitFleet /\ [][NextFleet]_vars

(***************************************************************************)
(* Order::new as a function of its arguments and of the numbers it draws   *)
(***************************************************************************)

\* Largest number of airports handed to Order::new.
MaxAirports == 4

\* OrderGenerationParams; alpha and beta in tenths (DEFAULT_ALPHA = 0.5,
\* DEFAULT_BETA = 0.7), a short deadline range and light cargo.
OrderParams ==
    [max_deadline_hours |-> 2, min_weight |-> 100, max_weight |-> 100,
     alpha |-> 5, beta |-> 7]

\* airport_coordinates: n airports on a line, 100 apart.
AirportCoordinates(n) == [i \in 1 .. n |-> Coordinate(100 * (i - 1), 0)]

\* The numbers Order::new takes from its generator, each within the range the
\* code asks for.
Draws(num_airports, params) ==
    [deadline : 1 .. params.max_deadline_hours,
     destination : 0 .. num_airports - 1,
     weight : params.min_weight .. params.max_weight,
     price_per_kg : {1, 8}]

\* Order::new
Order_new(order_id, origin_airport_id, airport_coordinates, num_airports, params, draw) ==
    LET destination_id == IF draw.destination = origin_airport_id
                          THEN (draw.destination + 1) % num_airports
                          ELSE draw.destination
        d2 == Dist2(airport_coordinates[origin_airport_id + 1],
                    airport_coordinates[destination_id + 1])
        \* (dx * dx + dy * dy).sqrt(), a whole number on these coordinates
        distance == CHOOSE r \in 0 .. d2 : r * r = d2
        base_value == draw.weight * draw.price_per_kg
        \* value = round(base * (1 + alpha * d / 10000) * (1 + beta * (M - dl) / M))
        \* the distance factor as a fraction in lowest terms
        g == GCD(100000 + params.alpha * distance, 100000)
        num == base_value * ((100000 + params.alpha * distance) \div g)
                 * (10 * params.max_deadline_hours
                      + params.beta * (params.max_deadline_hours - draw.deadline))
        den == (100000 \div g) * 10 * params.max_deadline_hours
    IN Order(order_id, draw.weight, (2 * num + den) \div (2 * den), draw.deadline,
             origin_airport_id, destination_id)

InitOrders ==
    /\ \E n \in 1 .. MaxAirports :
         \E origin \in 0 .. n - 1, draw \in Draws(n, OrderParams) :
            game = [num_airports |-> n, origin_airport_id |-> origin, draw |-> draw,
                    orders |-> <<>>]
    /\ last = Call("new", 0, 0, "Ok")
    /\ processed = <<>>
    /\ departed = <<>>
    /\ steps = 0

NewOrder ==
    /\ steps = 0
    /\ game' = [game EXCEPT !.orders =
                  <<Order_new(0, game.origin_airport_id,
                              AirportCoordinates(game.num_airports),
                              game.num_airports, OrderParams, game.draw)>>]
    /\ last' = Call("Order::new", 0, game.origin_airport_id, "Ok")
    /\ steps' = 1
    /\ UNCHANGED <<processed, departed>>

NextOrders == NewOrder

SpecOrders == InitOrders /\ [][NextOrders]_vars

(***************************************************************************)
(* Game::new as a function of the generated map                            *)
(***************************************************************************)

\* Generated maps of three airports: airport 0 near or far from the other two,
\* which lie 200 or 2000 and 300 or 3000 from the origin, every runway too
\* short for all models, long enough for a SparrowLight or long enough for all.
NewMaps ==
    {<<Airport(0, c0, r[1], 1, 3, 10, <<>>),
       Airport(1, c1, r[2], 1, 3, 10, <<>>),
       Airport(2, c2, r[3], 2, 4, 20, <<>>)>> :
       c0 \in {Coordinate(0, 0), Coordinate(4000, 3000)},
       c1 \in {Coordinate(200, 0), Coordinate(2000, 0)},
       c2 \in {Coordinate(0, 300), Coordinate(0, 3000)},
       r \in [1 .. 3 -> {300, 1000, 5000}]}

InitNew ==
    /\ \E airports \in NewMaps :
         game = [airports |-> airports, starting_cash |-> StartingCash, engine |-> <<>>]
    /\ last = Call("none", 0, 0, "Ok")
    /\ processed = <<>>
    /\ departed = <<>>
    /\ steps = 0

NewGame ==
    /\ steps = 0
    /\ game' = [game EXCEPT !.engine = <<Game_new(game.airports, game.starting_cash)>>]
    /\ last' = Call("new", 0, 0, "Ok")
    /\ steps' = 1
    /\ UNCHANGED <<processed, departed>>

NextNew == NewGame

SpecNew == InitNew /\ [][NextNew]_vars

(***************************************************************************)
(* PyVectorEnv: several engines, advanced in parallel or one after another  *)
(***************************************************************************)

\* Calls made on the vector environment.
MaxCalls == 3

\* Slots of the vector environment.
Envs == {1, 2}

\* Seeds handed to the constructor and to reset_at.
Seeds == {1, 2}

\* Commands handed to execute_all; "none" is Python's None.
Commands == {"none", "load", "depart"}

\* The world of another seed: other fees at airport 1, a longer runway at
\* airport 0.
OtherMap == [FleetMap EXCEPT ![2].landing_fee = 7, ![2].parking_fee = 12]

\* Map::generate_from_seed: the world is a function of the seed alone.
World(seed) == IF seed = 1 THEN GeneratedMap ELSE OtherMap

\* An engine whose world depends on the slot it is put in.
Engine_new_by_slot(idx, seed) == Game_new(World(idx), StartingCash)

\* Game::new(s, num_airports, c) as called for slot idx.
Engine_new(idx, seed) == Game_new(World(seed), StartingCash)

\* Game::observe: the snapshot handed to the caller.
observe(g) ==
    [time |-> g.time,
     cash |-> g.player.cash,
     airports |-> [a \in Idx(g.airports) |->
                     [id |-> g.airports[a].id,
                      coord |-> g.airports[a].coord,
                      landing_fee |-> g.airports[a].landing_fee,
                      parking_fee |-> g.airports[a].parking_fee,
                      fuel_price |-> g.airports[a].fuel_price,
                      orders |-> [k \in Idx(g.airports[a].orders) |->
                                    g.airports[a].orders[k].id]]],
     planes |-> [i \in Idx(g.airplanes) |->
                   [id |-> g.airplanes[i].id,
                    model |-> g.airplanes[i].model,
                    status |-> g.airplanes[i].status.tag,
                    location |-> g.airplanes[i].location,
                    fuel |-> g.airplanes[i].current_fuel,
                    payload |-> g.airplanes[i].current_payload,
                    manifest |-> [k \in Idx(g.airplanes[i].manifest) |->
                                    g.airplanes[i].manifest[k].id]]],
     daily_income |-> g.daily_income,
     daily_expenses |-> g.daily_expenses,
     stats |-> g.stats]

\* Game::execute_str on the command of one slot.
execute(g, cmd) ==
    CASE cmd = "load" -> load_order(g, 0, 0).g
      [] cmd = "depart" -> depart_plane(g, 0, 1).g
      [] OTHER -> g

Idle == [busy |-> FALSE, target |-> 0, hours |-> 0]

\* PyVectorEnv { envs, seeds }; `hist` is the calls each engine has seen since it was
\* built and `seq` the engines as advanced one after another.
VectorEnv(seeds) ==
    [envs |-> [i \in Envs |-> Engine_new(i, seeds[i])],
     seeds |-> seeds,
     workers |-> [i \in Envs |-> Idle],
     hist |-> [i \in Envs |-> <<>>],
     seq |-> [i \in Envs |-> Engine_new(i, seeds[i])]]

\* PyVectorEnv::reset_at
reset_at(v, idx, seed) ==
    [v EXCEPT !.seeds[idx] = seed,
              !.envs[idx] = Engine_new(idx, seed),
              !.hist[idx] = <<>>,
              !.seq[idx] = Engine_new(idx, seed)]

\* PyVectorEnv::execute_all: the engines take their commands in turn.
execute_all(v, cmds) ==
    [v EXCEPT !.envs = [i \in Envs |-> execute(v.envs[i], cmds[i])],
              !.hist = [i \in Envs |->
                          IF cmds[i] = "none" THEN v.hist[i]
                          ELSE Append(v.hist[i], [op |-> cmds[i], arg |-> 0])],
              !.seq = [i \in Envs |-> execute(v.seq[i], cmds[i])]]

\* step_masked with parallel = false: `for (g, m) in ... { if m { g.advance(hours) } }`
step_in_turn(v, hours, mask) ==
    [v EXCEPT !.envs = [i \in Envs |->
                          IF mask[i] THEN advance(v.envs[i], hours).g ELSE v.envs[i]],
              !.hist = [i \in Envs |->
                          IF mask[i] THEN Append(v.hist[i], [op |-> "advance", arg |-> hours])
                          ELSE v.hist[i]],
              !.seq = [i \in Envs |->
                         IF mask[i] THEN advance(v.seq[i], hours).g ELSE v.seq[i]]]

\* step_masked with parallel = true: par_iter_mut hands every engine of the
\* mask to a worker of its own, which runs advance(hours) on it.
step_fork(v, hours, mask) ==
    [v EXCEPT !.workers = [i \in Envs |->
                             IF mask[i]
                             THEN [busy |-> TRUE, target |-> v.envs[i].time + hours,
                                   hours |-> hours]
                             ELSE Idle],
              !.seq = [i \in Envs |->
                         IF mask[i] THEN advance(v.seq[i], hours).g ELSE v.seq[i]]]

\* A worker that runs its advance on the first engine of the vector.
worker_step_on_first(v, i) ==
    LET g == v.envs[1]
        w == v.workers[i]
    IN IF ~g.aborted /\ g.events # <<>> /\ Due(g.events[1], w.target)
       THEN [v EXCEPT !.envs[1] = tick_event(g)]
       ELSE [v EXCEPT !.envs[1] = IF g.aborted THEN g ELSE [g EXCEPT !.time = w.target],
                      !.workers[i] = Idle,
                      !.hist[i] = Append(@, [op |-> "advance", arg |-> w.hours])]

\* One step of worker i inside Game::advance on its own engine: the next due
\* event is handled, or the clock is set to the target and the worker ends.
worker_step(v, i) ==
    LET g == v.envs[i]
        w == v.workers[i]
    IN IF ~g.aborted /\ g.events # <<>> /\ Due(g.events[1], w.target)
       THEN [v EXCEPT !.envs[i] = tick_event(g)]
       ELSE [v EXCEPT !.envs[i] = IF g.aborted THEN g ELSE [g EXCEPT !.time = w.target],
                      !.workers[i] = Idle,
                      !.hist[i] = Append(@, [op |-> "advance", arg |-> w.hours])]

\* The caller holds the vector (&mut self) between calls: a call starts when
\* every worker of the call before has ended.
Joined == \A i \in Envs : ~game.workers[i].busy

Callable == steps < MaxCalls /\ Joined

\* PyVectorEnv::new(2, Some(1), ..): slot i gets the seed base_seed + i.
InitVector ==
    /\ game = VectorEnv([i \in Envs |-> i])
    /\ last = Call("new", 0, 0, "Ok")
    /\ processed = <<>>
    /\ departed = <<>>
    /\ steps = 0

ResetAt ==
    /\ Callable
    /\ \E idx \in Envs, seed \in Seeds :
         /\ game' = reset_at(game, idx, seed)
         /\ last' = Call("reset_at", idx, seed, "Ok")
    /\ steps' = steps + 1
    /\ UNCHANGED <<processed, departed>>

ExecuteAll ==
    /\ Callable
    /\ \E cmds \in [Envs -> Commands] :
         /\ game' = execute_all(game, cmds)
         /\ last' = Call("execute_all", 0, 0, "Ok")
    /\ steps' = steps + 1
    /\ UNCHANGED <<processed, departed>>

\* step_all is step_masked with every engine in the mask.
StepMasked ==
    /\ Callable
    /\ \E hours \in Hours, mask \in [Envs -> BOOLEAN], parallel \in BOOLEAN :
         /\ game' = IF parallel THEN step_fork(game, hours, mask)
                                ELSE step_in_turn(game, hours, mask)
         /\ last' = Call(IF parallel THEN "step_parallel" ELSE "step_in_turn",
                         0, hours, "Ok")
    /\ steps' = steps + 1
    /\ UNCHANGED <<processed, departed>>

Worker ==
    /\ \E i \in Envs :
         /\ game.workers[i].busy
         /\ game' = worker_step(game, i)
    /\ UNCHANGED <<last, processed, departed, steps>>

NextVector == ResetAt \/ ExecuteAll \/ StepMasked \/ Worker

SpecVector == InitVector /\ [][NextVector]_vars

(***************************************************************************)
(* Game::advance event by event, on an engine built from a configuration    *)
(***************************************************************************)

\* Calls of advance made on the configured engine.
MaxAdvances == 2

\* gameplay.restock_cycle_hours and gameplay.fuel_interval_hours of the
\* configurations handed to from_config.
RestockCycles == {0, 1, 336}

FuelIntervals == {0, 1, 6}

GameplayConfigs ==
    [restock_cycle_hours : RestockCycles, fuel_interval_hours : FuelIntervals]

\* The events that queue their own successor.
RecurringEvents == {"Restock", "FuelPriceUpdate", "DailyStats"}

\* A validation that lets every number pass.
validate_anything(gameplay) == TRUE

\* Game::from_config, validation ("non-positive numeric" is an error).
validate(gameplay) ==
    gameplay.restock_cycle_hours > 0 /\ gameplay.fuel_interval_hours > 0

\* Game::from_config: the engine of Game::new with the recurring events queued
\* at the configured intervals.
from_config(gameplay) ==
    IF ~validate(gameplay) THEN [res |-> "InvalidConfig", g |-> <<>>]
    ELSE LET g0 == [Game_new(GeneratedMap, StartingCash) EXCEPT !.events = <<>>, !.nseq = 1]
             g1 == schedule(g0, gameplay.restock_cycle_hours, "Restock", 0)
             g2 == schedule(g1, REPORT_INTERVAL, "DailyStats", 0)
         IN [res |-> "Ok",
             g |-> schedule(g2, gameplay.fuel_interval_hours, "FuelPriceUpdate", 0)]

\* Game::tick_event of the configured engine: Restock and FuelPriceUpdate
\* queue their successors at the configured intervals, the other events are
\* handled as in the engine of Game::new.
tick_event_configured(g, gameplay) ==
    LET popped == heap_pop(g.events)
        ev == popped.item
        g1 == [g EXCEPT !.time = ev.time, !.events = popped.data]
    IN CASE ev.event = "Restock" ->
              schedule(restock_airports(g1), g1.time + gameplay.restock_cycle_hours,
                       "Restock", 0)
         [] ev.event = "FuelPriceUpdate" ->
              schedule(g1, g1.time + gameplay.fuel_interval_hours, "FuelPriceUpdate", 0)
         [] OTHER -> tick_event(g)

\* advance: `while let Some(ev) = self.events.peek() { if ev.time <= target`
EventDue(run) ==
    run.engine.events # <<>> /\ Due(run.engine.events[1], run.target)

InitAdvance ==
    /\ \E gameplay \in GameplayConfigs :
         /\ from_config(gameplay).res = "Ok"
         /\ game = [engine |-> from_config(gameplay).g, gameplay |-> gameplay,
                    target |-> 0, busy |-> FALSE, ticks |-> 0]
    /\ last = Call("from_config", 0, 0, "Ok")
    /\ processed = <<>>
    /\ departed = <<>>
    /\ steps = 0

\* advance: `let target = self.time + hours;`
AdvanceBegin ==
    /\ ~game.busy
    /\ steps < MaxAdvances
    /\ \E hours \in Hours \cup {0} :
         /\ game' = [game EXCEPT !.target = game.engine.time + hours,
                                 !.busy = TRUE, !.ticks = 0]
         /\ last' = Call("advance", 0, hours, "Ok")
    /\ processed' = <<>>
    /\ steps' = steps + 1
    /\ UNCHANGED departed

\* advance: one turn of the loop, `self.tick_event()`
AdvanceTick ==
    /\ game.busy
    /\ EventDue(game)
    /\ game' = [game EXCEPT !.engine = tick_event_configured(@, game.gameplay),
                            !.ticks = @ + 1]
    /\ processed' = Append(processed, game.engine.events[1])
    /\ UNCHANGED <<last, departed, steps>>

\* advance: `break`, then `self.time = target;`
AdvanceEnd ==
    /\ game.busy
    /\ ~EventDue(game)
    /\ game' = [game EXCEPT !.engine.time = game.target, !.busy = FALSE]
    /\ UNCHANGED <<last, processed, departed, steps>>

NextAdvance == AdvanceBegin \/ AdvanceTick \/ AdvanceEnd

\* A call that has begun runs on: the loop of advance is not suspended.
SpecAdvance ==
    InitAdvance /\ [][NextAdvance]_vars /\ WF_vars(AdvanceTick \/ AdvanceEnd)

(***************************************************************************)
(* Properties                                                              *)
(***************************************************************************)

SeqIds(events) == {events[k].seq : k \in Idx(events)}

AdvanceStep == last'.op = "advance" /\ steps' = steps + 1

\* C1: advance(h) called at time t processes exactly the queued events whose
\* time is at most t + h, those enqueued while it runs included, in
\* non-decreasing time order; it returns with the clock at t + h and with no
\* queued event at or before t + h; when no event is due only the clock changes.
C1_AdvanceProcessesDueEvents ==
    [][AdvanceStep =>
         LET target == game.time + last'.arg
             enqueued == game.nseq .. game'.nseq - 1
         IN /\ game'.time = target
            /\ \A k \in Idx(game'.events) : game'.events[k].time > target
            /\ \A k \in Idx(processed') :
                 /\ processed'[k].time >= game.time
                 /\ processed'[k].time <= target
            /\ \A k \in 1 .. Len(processed') - 1 :
                 processed'[k].time <= processed'[k + 1].time
            /\ Cardinality(SeqIds(processed')) = Len(processed')
            /\ SeqIds(processed') \cap SeqIds(game'.events) = {}
            /\ SeqIds(processed') \cup SeqIds(game'.events)
                 = SeqIds(game.events) \cup enqueued
            /\ (\A k \in Idx(game.events) : game.events[k].time > target)
                 => game' = [game EXCEPT !.time = target]
    ]_vars

\* An advance has processed a DailyStats event queued before it started and
\* two FlightProgress events of one plane, the second of which the first
\* enqueued while the advance ran.
C1_Witness ==
    /\ last.op = "advance"
    /\ \E k \in Idx(processed) : processed[k].event = "DailyStats"
    /\ \E j, k \in Idx(processed) :
         /\ j < k
         /\ processed[j].event = "FlightProgress"
         /\ processed[k].event = "FlightProgress"
         /\ processed[j].plane = processed[k].plane
         /\ processed[k].time = processed[j].time + 1


\* C2: events scheduled for the same time are processed in FIFO insertion
\* order (seq numbers the insertions).
C2_SameTimeFifo ==
    \A j, k \in Idx(processed) :
        (j < k /\ processed[j].time = processed[k].time)
            => processed[j].seq < processed[k].seq

FuelWithinCapacity ==
    \A i \in Idx(game.airplanes) :
        /\ game.airplanes[i].current_fuel >= 0
        /\ game.airplanes[i].current_fuel
             <= specs(game.airplanes[i].model).fuel_capacity

\* A depart_plane step that reaches the fuel computation (plane and both
\* airports found) and needs more fuel than the plane holds.
DepartNeedsMoreFuel ==
    /\ last'.op = "depart_plane" /\ steps' = steps + 1
    /\ PlaneWithId(game.airplanes, last'.plane) # 0
    /\ AirportWithId(game.airports, last'.arg) # 0
    /\ LET plane == game.airplanes[PlaneWithId(game.airplanes, last'.plane)]
           dest == game.airports[AirportWithId(game.airports, last'.arg)]
       IN /\ AirportAt(game.airports, plane.location) # 0
          /\ flight_hours(Dist2(plane.location, dest.coord), plane.model)
               * specs(plane.model).fuel_consumption > plane.current_fuel

\* C3: every plane has 0 <= current_fuel <= fuel_capacity at all times, and a
\* departure whose required fuel ceil(distance / cruise_speed) * fuel_consumption
\* exceeds current_fuel is rejected: no flight starts and no fuel is drawn.
C3_FuelBounds ==
    /\ []FuelWithinCapacity
    /\ [][DepartNeedsMoreFuel =>
            /\ last'.res # "Ok"
            /\ game'.airplanes = game.airplanes
            /\ game'.events = game.events]_vars

\* A departure within range was rejected for lack of fuel.
C3_Witness ==
    /\ last.op = "depart_plane"
    /\ last.res = "InsufficientFuel"

RECURSIVE SumWeights(_)
SumWeights(orders) ==
    IF orders = <<>> THEN 0 ELSE Head(orders).weight + SumWeights(Tail(orders))

\* C4: for every plane current_payload is the sum of the weights of the orders
\* in its manifest and is at most payload_capacity, after any sequence of load,
\* unload, buy and advance operations.
C4_PayloadIsManifestWeight ==
    \A i \in Idx(game.airplanes) :
        /\ game.airplanes[i].current_payload = SumWeights(game.airplanes[i].manifest)
        /\ game.airplanes[i].current_payload
             <= specs(game.airplanes[i].model).payload_capacity

\* A plane filled to capacity with two orders has had one of them unloaded.
C4_Witness ==
    /\ last.op \in {"unload_order", "unload_orders", "unload_all"}
    /\ last.res = "Ok"
    /\ \E i \in Idx(game.airplanes) :
         /\ Len(game.airplanes[i].manifest) = 1
         /\ game.airplanes[i].current_payload > 0

UnloadOps == {"unload_order", "unload_orders", "unload_all"}

\* A step of one of the unload operations on a plane that exists and stands on
\* an airport coordinate.
UnloadStep ==
    /\ last'.op \in UnloadOps /\ steps' = steps + 1
    /\ PlaneWithId(game.airplanes, last'.plane) # 0
    /\ AirportAt(game.airports,
                 game.airplanes[PlaneWithId(game.airplanes, last'.plane)].location) # 0

Ids(orders) == {orders[k].id : k \in Idx(orders)}

\* The orders a step took off the plane at index i, in manifest order.
Unloaded(i) ==
    SelectSeq(game.airplanes[i].manifest,
              LAMBDA o : o.id \notin Ids(game'.airplanes[i].manifest))

RECURSIVE SumValues(_)
SumValues(orders) ==
    IF orders = <<>> THEN 0 ELSE Head(orders).value + SumValues(Tail(orders))

\* After the step the order is in no airport's list and in no manifest.
GoneAfter(o) ==
    /\ \A a \in Idx(game'.airports) : o.id \notin Ids(game'.airports[a].orders)
    /\ \A i \in Idx(game'.airplanes) : o.id \notin Ids(game'.airplanes[i].manifest)

\* After the step the order was appended to the pending list of airport a.
AppendedAfter(o, a) ==
    /\ \E k \in Len(game.airports[a].orders) + 1 .. Len(game'.airports[a].orders) :
         game'.airports[a].orders[k] = o
    /\ \A i \in Idx(game'.airplanes) : o.id \notin Ids(game'.airplanes[i].manifest)

\* The unloaded orders that count as deliveries: at their destination, in time.
Delivered(i, a) ==
    SelectSeq(Unloaded(i),
              LAMBDA o : o.deadline > 0 /\ o.destination_id = game.airports[a].id)

\* C5: unloading an order with deadline > 0 from a plane at airport A: when A is
\* its destination, cash and daily_income rise by its value, orders_delivered by
\* one, and the order is in no list or manifest afterwards; otherwise it is
\* appended to A's pending list and cash, daily_income and orders_delivered do
\* not change. The same holds for unload_order, unload_orders and unload_all.
C5_UnloadDeliversOrReturns ==
    [][UnloadStep =>
         LET i == PlaneWithId(game.airplanes, last'.plane)
             a == AirportAt(game.airports, game.airplanes[i].location)
         IN /\ game'.player.cash = game.player.cash + SumValues(Delivered(i, a))
            /\ game'.daily_income = game.daily_income + SumValues(Delivered(i, a))
            /\ game'.player.orders_delivered
                 = game.player.orders_delivered + Len(Delivered(i, a))
            /\ \A k \in Idx(Unloaded(i)) :
                 LET o == Unloaded(i)[k] IN
                 o.deadline > 0 =>
                    IF o.destination_id = game.airports[a].id
                    THEN GoneAfter(o)
                    ELSE AppendedAfter(o, a)
            /\ SubSeq(game'.airports[a].orders, 1, Len(game.airports[a].orders))
                 = game.airports[a].orders
    ]_vars

\* An unload at airport 1 delivered order 0 there: it was paid and counted.
C5_Witness ==
    /\ last.op \in UnloadOps /\ last.res = "Ok"
    /\ game.player.orders_delivered = 1
    /\ game.daily_income = 1000
    /\ game.airplanes[1].location = game.airports[2].coord

\* C6: unloading an order whose deadline is 0 discards it at whatever airport
\* the plane stands on: it is not paid, not counted as delivered and not placed
\* in any pending list.
C6_ExpiredOrderDiscarded ==
    [][UnloadStep =>
         LET i == PlaneWithId(game.airplanes, last'.plane)
             a == AirportAt(game.airports, game.airplanes[i].location)
         IN /\ game'.player.cash = game.player.cash + SumValues(Delivered(i, a))
            /\ game'.player.orders_delivered
                 = game.player.orders_delivered + Len(Delivered(i, a))
            /\ \A k \in Idx(Unloaded(i)) :
                 Unloaded(i)[k].deadline = 0 => GoneAfter(Unloaded(i)[k])
    ]_vars

\* C7: a depart_plane call that returns an error leaves the whole game state
\* unchanged (cash, daily_expenses, fuel, status, location, event queue),
\* whatever the time elapsed since the plane's last arrival.
C7_FailedDepartChangesNothing ==
    [][(last'.op = "depart_plane" /\ steps' = steps + 1 /\ last'.res # "Ok")
          => game' = game]_vars

\* C8: after a successful depart at time t with h >= 1 flight hours, whenever
\* the clock has been advanced to t + k with 0 <= k < h the plane is InTransit
\* with hours_remaining = h - k; once it has been advanced to t + h the plane is
\* Parked exactly at the destination coordinate, the landing fee was charged
\* exactly once and arrival_times[plane] = t + h.
C8_FlightLandsOnTime ==
    \A i \in Idx(departed) :
        (departed[i].active /\ departed[i].h >= 1
           /\ last.op \in {"advance", "depart_plane"}) =>
           LET f == departed[i]
               plane == game.airplanes[i]
           IN IF game.time < f.t + f.h
              THEN /\ plane.status.tag = "InTransit"
                   /\ plane.status.hours_remaining = f.h - (game.time - f.t)
                   /\ game.landings[i] = f.landed
              ELSE /\ game.landings[i] = f.landed + 1
                   /\ game.arrival_times[i] = f.t + f.h
                   /\ (game.time = f.t + f.h /\ last.op = "advance") =>
                        /\ plane.status.tag = "Parked"
                        /\ plane.location = game.airports[f.dest + 1].coord

PlaneOps == {"load_order", "depart_plane"} \cup UnloadOps

\* C9: load_order, unload_order, unload_orders, unload_all and depart_plane
\* called on a plane that is not Parked fail with PlaneNotReady and leave the
\* state unchanged.
C9_BusyPlaneRejected ==
    [][(/\ last'.op \in PlaneOps /\ steps' = steps + 1
        /\ PlaneWithId(game.airplanes, last'.plane) # 0
        /\ game.airplanes[PlaneWithId(game.airplanes, last'.plane)].status.tag
             # "Parked")
          => (last'.res = "PlaneNotReady" /\ game' = game)]_vars

\* C10: a plane that is InTransit is never treated as being at an airport:
\* load, unload, refuel and depart on it are rejected, even when its location
\* (not yet updated, or interpolated) equals an airport's coordinate.
C10_InTransitNotAtAirport ==
    [][(/\ last'.op \in PlaneOps \cup {"refuel_plane"} /\ steps' = steps + 1
        /\ PlaneWithId(game.airplanes, last'.plane) # 0
        /\ game.airplanes[PlaneWithId(game.airplanes, last'.plane)].status.tag
             = "InTransit")
          => last'.res # "Ok"]_vars

\* C11: after every DailyStats event that advance processes, the running totals
\* of the day, daily_income and daily_expenses, are both 0. Checked on every
\* advance whose last processed event is a DailyStats event.
C11_DailyStatsResetsTotals ==
    [][(AdvanceStep /\ processed' # <<>>
          /\ processed'[Len(processed')].event = "DailyStats")
       => (game'.daily_income = 0 /\ game'.daily_expenses = 0)]_vars

BuyStep == last'.op = "buy_plane" /\ steps' = steps + 1

\* C12: a successful buy_plane takes exactly the purchase price of the bought
\* model off the cash and adds exactly that amount to daily_expenses, and adds
\* exactly one plane, Parked, with full fuel and an empty manifest, at the
\* coordinate of the airport, whatever models the fleet holds already.
C12_BuyChargesPriceOfBoughtModel ==
    [][(BuyStep /\ last'.res = "Ok") =>
         LET price == specs(last'.model).purchase_price
             new_plane == game'.airplanes[Len(game'.airplanes)]
         IN /\ game'.player.cash = game.player.cash - price
            /\ game'.daily_expenses = game.daily_expenses + price
            /\ Len(game'.airplanes) = Len(game.airplanes) + 1
            /\ new_plane.model = last'.model
            /\ new_plane.status = Parked
            /\ new_plane.current_fuel = specs(last'.model).fuel_capacity
            /\ new_plane.manifest = <<>>
            /\ new_plane.location = game.airports[last'.arg + 1].coord
    ]_vars

KnownModel(model) == \E m \in Idx(Models) : Models[m] = model

\* C13: buy_plane of a model whose purchase price exceeds the cash fails with
\* InsufficientFunds{have = cash, need = purchase price} and leaves cash, fleet,
\* fleet_size, daily_expenses and arrival_times as they were; a purchase that
\* succeeds never leaves the cash negative.
C13_UnaffordablePurchaseRejected ==
    [][BuyStep =>
         /\ (KnownModel(last'.model)
               /\ specs(last'.model).purchase_price > game.player.cash)
            => /\ last'.res = "InsufficientFunds"
               /\ last'.have = game.player.cash
               /\ last'.need = specs(last'.model).purchase_price
               /\ game'.player = game.player
               /\ game'.airplanes = game.airplanes
               /\ game'.daily_expenses = game.daily_expenses
               /\ game'.arrival_times = game.arrival_times
         /\ last'.res = "Ok" => game'.player.cash >= 0
    ]_vars

\* With a third plane bought, the next purchase was refused for lack of funds.
C13_Witness ==
    /\ last.op = "buy_plane" /\ last.res = "InsufficientFunds"
    /\ last.need > last.have
    /\ last.have = game.player.cash
    /\ game.player.fleet_size = 3

DepartStep == last'.op = "depart_plane" /\ steps' = steps + 1

\* C14: a successful depart_plane at clock t takes parking_fee(origin) * (t - a)
\* off the cash and adds it to daily_expenses, where a is the clock at which the
\* departing plane itself last landed or was bought (0 for the starter plane),
\* and a <= t; also after other planes were bought or sold.
C14_ParkingChargedSinceOwnArrival ==
    [][(DepartStep /\ last'.res = "Ok") =>
         LET i == PlaneWithId(game.airplanes, last'.plane)
             o == AirportAt(game.airports, game.airplanes[i].location)
             a == game.since[i]
             fee == game.airports[o].parking_fee * (game.time - a)
         IN /\ a <= game.time
            /\ game'.player.cash = game.player.cash - fee
            /\ game'.daily_expenses = game.daily_expenses + fee
    ]_vars

BusyTags == {"Loading", "Unloading", "Refueling", "Maintenance"}

CompletionEvents == {"LoadingEvent", "RefuelComplete", "MaintenanceComplete"}

\* The plane at position i is busy and an event that completes the work of the
\* plane with its id is queued for the next hour.
CompletionQueued(g, i) ==
    \E k \in Idx(g.events) :
        /\ g.events[k].event \in CompletionEvents
        /\ g.events[k].plane = g.airplanes[i].id
        /\ g.events[k].time = g.time + 1

AdvanceCall == last'.op \in {"advance", "advance_aborted"} /\ steps' = steps + 1

\* C15: whenever a plane is Loading, Unloading, Refueling or in Maintenance, a
\* completion event for that plane is queued for the next hour, and after an
\* advance of an hour or more no plane is busy any more: no plane stays busy
\* forever.
C15_BusyPlaneIsReleased ==
    /\ [](\A i \in Idx(game.airplanes) :
            game.airplanes[i].status.tag \in BusyTags => CompletionQueued(game, i))
    /\ [][AdvanceCall =>
            /\ last'.op = "advance"
            /\ \A i \in Idx(game'.airplanes) :
                   game'.airplanes[i].status.tag \notin BusyTags]_vars

RECURSIVE SumLen(_, _)
SumLen(lists, n) == IF n = 0 THEN 0 ELSE Len(lists[n]) + SumLen(lists, n - 1)

\* The pending lists of all airports and the manifests of all planes.
OrderLists(g) ==
    [i \in Idx(g.airports) |-> g.airports[i].orders]
      \o [i \in Idx(g.airplanes) |-> g.airplanes[i].manifest]

OrderIdsOf(g) ==
    UNION {{OrderLists(g)[i][k].id : k \in Idx(OrderLists(g)[i])} : i \in Idx(OrderLists(g))}

C17_DestinationIsAnotherAirport ==
    \A k \in Idx(game.orders) :
        /\ game.orders[k].destination_id # game.orders[k].origin_id
        /\ game.orders[k].destination_id < game.num_airports

\* C18: advance never aborts: every queued plane event names a plane that still
\* exists, and the position it indexes holds the plane with that id, also after
\* sell_plane.
C18_PlaneEventsNameLivePlanes ==
    /\ last.op # "advance_aborted"
    /\ \A k \in Idx(game.events) :
          game.events[k].event \in PlaneEvents
            => /\ game.events[k].plane + 1 \in Idx(game.airplanes)
               /\ game.airplanes[game.events[k].plane + 1].id = game.events[k].plane

\* C19: depart_plane with the airport at which the plane stands as destination
\* fails with SameAirport and changes nothing: no flight of zero hours is
\* scheduled and no parking or landing fee is charged.
C19_DepartToOwnAirportRejected ==
    [][DepartStep =>
         LET i == PlaneWithId(game.airplanes, last'.plane)
             o == IF i = 0 THEN 0 ELSE AirportAt(game.airports, game.airplanes[i].location)
         IN (o # 0 /\ game.airports[o].id = last'.arg)
              => (last'.res = "SameAirport" /\ game' = game)
    ]_vars

RECURSIVE LandingFees(_, _, _)
\* The landing fees of the planes among the first n that landed between g and
\* h, each at the destination it was flying to in g.
LandingFees(g, h, n) ==
    IF n = 0 THEN 0
    ELSE LandingFees(g, h, n - 1)
           + IF h.landings[n] = g.landings[n] THEN 0
             ELSE (h.landings[n] - g.landings[n])
                    * landing_fee(g.airports[g.airplanes[n].status.destination + 1],
                                  g.airplanes[n])

RECURSIVE PopOrder(_)
\* The events of a heap in the order in which pop returns them.
PopOrder(events) ==
    IF events = <<>> THEN <<>>
    ELSE <<heap_pop(events).item>> \o PopOrder(heap_pop(events).data)

\* C22: loading a saved copy of a game gives a game equal to it in every field
\* (time, map and orders, player, fleet, arrival_times, accumulators, stats,
\* queued events), and the loaded game pops its queued events, those with equal
\* times included, in the order in which the saved game would.
C22_LoadOfSaveIsIdentity ==
    [][(last'.op = "load_game" /\ steps' = steps + 1) =>
         /\ game' = game
         /\ PopOrder(game'.events) = PopOrder(game.events)
    ]_vars

\* A game was saved and loaded with three or more events queued, two of them
\* for the same hour.
C22_Witness ==
    /\ last.op = "load_game"
    /\ Len(game.events) >= 3
    /\ \E j, k \in Idx(game.events) : j # k /\ game.events[j].time = game.events[k].time
    /\ \E j, k \in Idx(game.events) : game.events[j].time # game.events[k].time

SellStep == last'.op = "sell_plane" /\ steps' = steps + 1

\* C23: sell_plane(id) for an owned plane adds exactly 0.6 * purchase_price of
\* that plane to the cash, removes exactly that plane from the fleet and leaves
\* every other plane as it was; for an id that is not in the fleet it fails
\* with PlaneIdInvalid and changes nothing.
C23_SellRefundsSixtyPercent ==
    [][SellStep =>
         LET i == PlaneWithId(game.airplanes, last'.plane) IN
         IF i # 0
         THEN /\ last'.res = "Ok"
              /\ 10 * (game'.player.cash - game.player.cash)
                    = 6 * specs(game.airplanes[i].model).purchase_price
              /\ game'.airplanes = RemoveAt(game.airplanes, i)
              /\ game'.player.fleet = RemoveAt(game.player.fleet, i)
              /\ game'.player.fleet_size = game.player.fleet_size - 1
              /\ game'.daily_income = game.daily_income
              /\ game'.daily_expenses = game.daily_expenses
              /\ game'.airports = game.airports
         ELSE last'.res = "PlaneIdInvalid" /\ game' = game
    ]_vars

\* Plane 0, which was not the last of the fleet, was sold: plane 1 is the one
\* left and the refund is in the cash.
C23_Witness ==
    /\ last.op = "sell_plane" /\ last.res = "Ok"
    /\ game.player.fleet_size = 1 /\ Len(game.airplanes) = 1
    /\ game.airplanes[1].id = 1
    /\ game.player.cash > FleetCash - 400000

\* The airport at position a is one of a pair of airports that no other pair
\* of the map is closer than.
OfClosestPair(airports, a) ==
    \E b \in Idx(airports) \ {a} :
        \A p, q \in Idx(airports) :
            p # q => Dist2(airports[a].coord, airports[b].coord)
                       <= Dist2(airports[p].coord, airports[q].coord)

\* Models that can take off at the airport at position a and have another
\* airport within the range of a full tank.
CanLeave(airports, a) ==
    {m \in Idx(Models) :
        /\ min_runway_length(Models[m]) <= airports[a].runway_length
        /\ \E o \in Idx(airports) \ {a} :
              WithinRange(Dist2(airports[o].coord, airports[a].coord),
                          specs(Models[m]).fuel_capacity, Models[m])}

\* Those of them for which such an airport also has a runway to land on.
CanLeaveAndLand(airports, a) ==
    {m \in Idx(Models) :
        /\ min_runway_length(Models[m]) <= airports[a].runway_length
        /\ \E o \in Idx(airports) \ {a} :
              /\ WithinRange(Dist2(airports[o].coord, airports[a].coord),
                             specs(Models[m]).fuel_capacity, Models[m])
              /\ min_runway_length(Models[m]) <= airports[o].runway_length}

\* The new game has one plane, Parked with full fuel at an airport of the
\* closest pair, and the starting cash; its model is the cheapest of the
\* qualifying models, CometRegional when none qualifies.
StarterPlane(g, airports, cash, Qualifying(_, _)) ==
    LET plane == g.airplanes[1]
        a == AirportAt(airports, plane.location)
        Q == Qualifying(airports, a)
    IN /\ Len(g.airplanes) = 1 /\ g.player.fleet_size = 1
       /\ g.player.fleet = g.airplanes
       /\ g.player.cash = cash
       /\ plane.status = Parked
       /\ plane.current_fuel = specs(plane.model).fuel_capacity
       /\ a # 0 /\ OfClosestPair(airports, a)
       /\ IF Q = {} THEN plane.model = "CometRegional"
          ELSE \E m \in Q :
                 /\ plane.model = Models[m]
                 /\ \A n \in Q : specs(Models[m]).purchase_price
                                     <= specs(Models[n]).purchase_price

\* C24: a new game has exactly one plane, Parked with full fuel at the airport
\* of the closest pair, and cash = starting_cash; its model is the cheapest
\* model whose min_runway_length fits the start airport's runway and that has
\* another airport within full-tank range, CometRegional when none qualifies.
C24_StarterPlaneCanLeave ==
    \A k \in Idx(game.engine) :
        StarterPlane(game.engine[k], game.airports, game.starting_cash, CanLeave)

\* C24 as the code has it: the airport within range must also have a runway
\* of at least the model's min_runway_length.
C24_StarterPlaneCanLeaveAndLand ==
    \A k \in Idx(game.engine) :
        StarterPlane(game.engine[k], game.airports, game.starting_cash, CanLeaveAndLand)

\* A game was made on a map where a SparrowLight can take off at the start
\* airport and has an airport in range, but none in range that it can land on:
\* the starter plane is not a SparrowLight.
C24_Witness ==
    /\ Len(game.engine) = 1
    /\ 1 \in CanLeave(game.airports,
                       AirportAt(game.airports, game.engine[1].airplanes[1].location))
    /\ 1 \notin CanLeaveAndLand(game.airports,
                       AirportAt(game.airports, game.engine[1].airplanes[1].location))
    /\ game.engine[1].airplanes[1].model # "SparrowLight"

\* C26: buy_plane leaves every plane owned already as it is in location,
\* current_fuel, current_payload, manifest and status: the new plane is
\* appended, and planes in transit, partly fuelled or carrying orders are not
\* put back into their initial state.
C26_BuyLeavesFleetAlone ==
    [][(BuyStep /\ last'.res = "Ok") =>
         /\ Len(game'.airplanes) = Len(game.airplanes) + 1
         /\ \A i \in Idx(game.airplanes) : game'.airplanes[i] = game.airplanes[i]
    ]_vars

\* C27: unload_orders(ids, plane) is all or nothing: when it returns
\* OrderIdInvalid because an id of the list is not in the plane's manifest, no
\* order of the list has been unloaded, paid or moved to an airport, and the
\* plane's status and the event queue are as they were.
C27_UnloadOrdersAllOrNothing ==
    [][(last'.op = "unload_orders" /\ steps' = steps + 1
          /\ last'.res = "OrderIdInvalid")
       => game' = game]_vars

LoadStep == last'.op = "load_order" /\ steps' = steps + 1

\* C28: load_order(order, plane) for a plane standing at an airport either
\* succeeds: the order leaves the pending list of that airport and is appended
\* to the manifest, the plane becomes Loading and a LoadingEvent is queued at
\* time + 1; or it fails with OrderIdInvalid (order not pending at that
\* airport) or MaxPayloadReached (current_payload + weight > payload_capacity)
\* and the airport's list, the manifest, the status and the queue are unchanged.
C28_LoadOrderSucceedsOrChangesNothing ==
    [][LoadStep =>
         LET i == PlaneWithId(game.airplanes, last'.plane)
             a == IF i = 0 THEN 0 ELSE AirportAt(game.airports, game.airplanes[i].location)
         IN (i # 0 /\ a # 0) =>
              LET plane == game.airplanes[i]
                  pos == OrderPos(game.airports[a].orders, last'.arg)
              IN IF pos = 0
                 THEN last'.res = "OrderIdInvalid" /\ game' = game
                 ELSE IF plane.current_payload + game.airports[a].orders[pos].weight
                           > specs(plane.model).payload_capacity
                 THEN last'.res = "MaxPayloadReached" /\ game' = game
                 ELSE /\ last'.res = "Ok"
                      /\ game'.airports[a].orders = RemoveAt(game.airports[a].orders, pos)
                      /\ game'.airplanes[i].manifest
                            = Append(plane.manifest, game.airports[a].orders[pos])
                      /\ game'.airplanes[i].status.tag = "Loading"
                      /\ Len(game'.events) = Len(game.events) + 1
                      /\ \E k \in Idx(game'.events) :
                            /\ game'.events[k].event = "LoadingEvent"
                            /\ game'.events[k].plane = last'.plane
                            /\ game'.events[k].time = game.time + 1
                            /\ game'.events[k].seq = game.nseq
    ]_vars

\* A plane that carries an order was refused a pending order too heavy for
\* what is left of its payload.
C28_Witness ==
    /\ last.op = "load_order" /\ last.res = "MaxPayloadReached"
    /\ \E i \in Idx(game.airplanes) :
          /\ game.airplanes[i].id = last.plane
          /\ game.airplanes[i].manifest # <<>>
          /\ game.airplanes[i].current_payload = SumWeights(game.airplanes[i].manifest)

\* C29: update_deadline takes one hour off the deadline of every pending order
\* of the airport and removes every order whose deadline thereby reaches 0:
\* the orders left are those that had more than one hour, each with one hour
\* less, so that afterwards no pending order has deadline 0.
C29_UpdateDeadlineLeavesNoExpiredOrder ==
    [][(last'.op = "update_deadline" /\ steps' = steps + 1) =>
         LET a == last'.arg + 1
             left == SelectSeq(game.airports[a].orders, LAMBDA o : o.deadline > 1)
         IN /\ game'.airports[a].orders
                 = [k \in Idx(left) |-> [left[k] EXCEPT !.deadline = @ - 1]]
            /\ \A k \in Idx(game'.airports[a].orders) :
                 game'.airports[a].orders[k].deadline > 0
    ]_vars

\* C30: deadlines count simulated hours: when advance has moved the clock by k
\* hours, a pending order that had a deadline d > k has the deadline d - k, and
\* one that had d <= k is gone or has the deadline 0, with which no delivery is
\* paid.
C30_DeadlinesFollowTheClock ==
    [][(AdvanceCall /\ ~game'.aborted) =>
         LET k == game'.time - game.time IN
         \A a \in Idx(game.airports) :
           \A i \in Idx(game.airports[a].orders), j \in Idx(game'.airports[a].orders) :
             LET before == game.airports[a].orders[i]
                 after == game'.airports[a].orders[j]
             IN after.id = before.id =>
                  after.deadline = IF before.deadline > k THEN before.deadline - k ELSE 0
    ]_vars

C31_FuelIsDrawnAtDeparture ==
    /\ [][(DepartStep /\ last'.res = "Ok") =>
            LET i == PlaneWithId(game.airplanes, last'.plane)
                d == AirportWithId(game.airports, last'.arg)
                plane == game.airplanes[i]
                hours == flight_hours(Dist2(plane.location, game.airports[d].coord),
                                      plane.model)
            IN /\ game'.airplanes[i].current_fuel
                    = plane.current_fuel - hours * specs(plane.model).fuel_consumption
               /\ game'.airplanes[i].location = plane.location
               /\ game'.airplanes[i].status.tag = "InTransit"
         ]_vars
    /\ [][AdvanceCall =>
            /\ Len(game'.airplanes) = Len(game.airplanes)
            /\ \A i \in Idx(game.airplanes) :
                  game'.airplanes[i].current_fuel = game.airplanes[i].current_fuel
         ]_vars

\* A flight of more than one hour has landed: the plane stands at airport 2
\* with less than a full tank.
C31_Witness ==
    /\ last.op = "advance"
    /\ \E k \in Idx(processed) : processed[k].event = "FlightProgress"
    /\ \E i \in Idx(game.airplanes) :
          /\ game.airplanes[i].status.tag = "Parked"
          /\ game.airplanes[i].location = game.airports[3].coord
          /\ game.airplanes[i].current_fuel < specs(game.airplanes[i].model).fuel_capacity
          /\ departed[i].active /\ departed[i].h > 1

\* The DailyStats events in the queue.
PendingDailyStats == {k \in Idx(game.events) : game.events[k].event = "DailyStats"}

\* C32: from a new game, whatever calls bring the clock to T, the stats log
\* holds floor(T / 24) entries with the days 1, 2, ..., floor(T / 24) in that
\* order and exactly one DailyStats event is queued; a call only appends to the
\* log, it never changes or removes an entry.
C32_OneStatsEntryPerDay ==
    /\ [](/\ Len(game.stats) = game.time \div REPORT_INTERVAL
           /\ \A k \in Idx(game.stats) : game.stats[k].day = k
           /\ Cardinality(PendingDailyStats) = 1)
    /\ [][/\ Len(game'.stats) >= Len(game.stats)
           /\ SubSeq(game'.stats, 1, Len(game.stats)) = game.stats]_vars

\* Three days have gone by and other calls lie between the reports.
C32_Witness ==
    /\ game.time >= 3 * REPORT_INTERVAL
    /\ Len(game.stats) >= 3
    /\ game.time % REPORT_INTERVAL # 0
    /\ \E k \in Idx(game.stats) : game.stats[k].expenses > 0

C34_PlaneIdsDistinct ==
    /\ \A i \in Idx(game.airplanes), j \in Idx(game.airplanes) :
          i # j => game.airplanes[i].id # game.airplanes[j].id
    /\ \A i \in Idx(game.player.fleet), j \in Idx(game.player.fleet) :
          i # j => game.player.fleet[i].id # game.player.fleet[j].id

\* The FlightProgress events queued for the plane with this id.
PendingFlightProgress(id) ==
    {k \in Idx(game.events) :
       game.events[k].event = "FlightProgress" /\ game.events[k].plane = id}

\* C35: in every state a plane that is InTransit has exactly one FlightProgress
\* event queued and a plane that is not InTransit has none.
C35_OneFlightProgressPerFlight ==
    \A i \in Idx(game.airplanes) :
       Cardinality(PendingFlightProgress(game.airplanes[i].id))
         = IF game.airplanes[i].status.tag = "InTransit" THEN 1 ELSE 0

\* C36: in every state a plane whose status is not InTransit stands exactly at
\* the coordinate of an airport: no completion event sets a plane to Parked at
\* a mid-flight position.
C36_IdlePlaneIsAtAnAirport ==
    \A i \in Idx(game.airplanes) :
       game.airplanes[i].status.tag # "InTransit"
         => AirportAt(game.airports, game.airplanes[i].location) # 0

\* C37: between calls every queued event has a time strictly greater than the
\* clock; hence no call moves the clock backwards and advance(0) changes
\* nothing.
C37_QueuedEventsAreInTheFuture ==
    /\ [](/\ \A k \in Idx(game.events) : game.events[k].time > game.time
           /\ advance(game, 0).g = game)
    /\ [][game'.time >= game.time]_vars

\* An advance has handled events and left others queued, one of them for the
\* next hour.
C37_Witness ==
    /\ last.op = "advance"
    /\ processed # <<>>
    /\ Len(game.events) >= 3
    /\ \E k \in Idx(game.events) : game.events[k].time = game.time + 1

RECURSIVE SumIncome(_)
SumIncome(stats) ==
    IF stats = <<>> THEN 0 ELSE Head(stats).income + SumIncome(Tail(stats))

RECURSIVE SumExpenses(_)
SumExpenses(stats) ==
    IF stats = <<>> THEN 0 ELSE Head(stats).expenses + SumExpenses(Tail(stats))

\* No sale has taken an entry out of the fleet: arrival_times, which only
\* grows, has one entry per plane.
NoPlaneSold == Len(game.arrival_times) = Len(game.airplanes)

\* C38: while no plane has been sold, the cash is the starting cash plus the
\* income of all daily reports and of the running day, minus the expenses of
\* all daily reports and of the running day: every debit of the cash is
\* mirrored in daily_expenses and every credit in daily_income.
C38_CashIsStartingCashPlusIncomeMinusExpenses ==
    NoPlaneSold =>
      game.player.cash = FleetCash
                           + (SumIncome(game.stats) + game.daily_income)
                           - (SumExpenses(game.stats) + game.daily_expenses)

\* C39: with no call in between, advance(a) followed by advance(b) leaves the
\* engine in the state of the single advance(a + b): every advance(h) ends in
\* the state that any split of h into a and b ends in.
C39_AdvanceComposes ==
    [][(AdvanceCall /\ last'.op = "advance") =>
         \A a \in 0 .. last'.arg :
            advance(advance(game, a).g, last'.arg - a).g = game'
    ]_vars

\* An advance of a day has handled events of different hours, so that a split
\* falls between them.
C39_Witness ==
    /\ last.op = "advance"
    /\ last.arg = REPORT_INTERVAL
    /\ Len(processed) >= 3
    /\ processed[1].time < processed[Len(processed)].time

====
